---- MODULE Spec2Model ----
(***************************************************************************)
(* The resilient request client of frontend/lib/api.ts: fetchWithRetry     *)
(* (per-attempt timeout, exponential backoff, caller cancellation) and the *)
(* typed wrappers built on it.  One logical call is followed from its      *)
(* invocation to its settlement; every suspension point of the async code  *)
(* (the await of the raced fetch, the await of the backoff sleep) is a     *)
(* separate step.                                                          *)
(***************************************************************************)
EXTENDS Integers, Sequences, FiniteSets, TLC

VARIABLES
  pc,           \* "idle" | "attempting" | "backoff" | "done"
  fn,           \* the function the caller invoked
  arg,          \* the wrapper's argument: the message / query string (a sequence of
                \* characters), or <<date, etp_inlet_tank_value>> for getETPTankCapacity
  retries,      \* fetchWithRetry's retries parameter
  callerSignal, \* options.signal: "none" (absent) | "armed" | "aborted"
  attempt,      \* the loop variable of fetchWithRetry
  attempts,     \* number of fetch() calls issued by this logical call
  inflight,     \* attempts whose fetch() has neither settled nor been aborted
  listeners,    \* attempts whose 'abort' listener on options.signal can still fire
  lastError,    \* the lastError local of fetchWithRetry
  delays,       \* the sleep() delays awaited so far, in order
  history,      \* how each attempt ended, as seen by the retry loop
  lastOutcome,  \* what the most recent attempt delivered (response or error)
  fetchResult,  \* what fetchWithRetry returned or threw
  result,       \* what the wrapper resolved or rejected with
  elapsed,      \* ms since the logical call began (tracked by TimedSpec only)
  callNo,       \* which of two calls in sequence is running (SeqSpec only)
  prev,         \* attempts, delays and result of the first of the two calls
  backend,      \* the one answer an unchanged backend gives to every request
  ui,           \* the chat component: its state, its refs, the calls it awaits
  late,         \* state setters the component called after it had unmounted
  page,         \* the test-queries page: its state and whether it awaits a call
  other,        \* the state of a second logical call running concurrently (TwoSpec)
  focus,        \* which of the two concurrent calls the call variables describe
  aborted,      \* the AbortControllers on which abort() has been called
  timers,       \* per concurrent call, the attempts whose timeout timers have fired
  tm            \* the TaskManager component: its state and its pending requests

callVars == <<pc, fn, arg, retries, callerSignal, attempt, attempts, inflight,
              listeners, lastError, delays, history, lastOutcome, fetchResult, result>>

seqVars == <<callNo, prev, backend>>

uiVars == <<ui, late, page>>

twoVars == <<other, focus, aborted, timers>>

vars == <<callVars, elapsed, seqVars, uiVars, twoVars, tm>>

(***************************************************************************)
(* Program constants                                                       *)
(***************************************************************************)
REQUEST_TIMEOUT == 120000
MAX_RETRIES == 3
RETRY_DELAY == 1000

(***************************************************************************)
(* Bounds of the model                                                     *)
(***************************************************************************)
MaxBudget == 3      \* retry budgets 0..MaxBudget are tried on direct calls
MaxLen == 2         \* longest message / query string
MaxOps == 2         \* handler invocations followed on one chat component

(***************************************************************************)
(* The environment: what the backend and the transport can answer          *)
(***************************************************************************)
Statuses == {200, 299, 304, 400, 404, 499, 500, 599}

StatusText(status) ==
  CASE status = 200 -> "OK"
    [] status = 304 -> "Not Modified"
    [] status = 400 -> "Bad Request"
    [] status = 404 -> "Not Found"
    [] status = 500 -> "Internal Server Error"
    [] OTHER -> ""

\* A QueryResponse body as the backend sends it: success true, answer "45" and
\* confidence 0.9 (held in tenths).
QueryBody ==
  [parse |-> "object", hasMessage |-> FALSE, message |-> "",
   success |-> TRUE, answer |-> "45", confidence |-> 9]

\* A response body: parse says what response.json() does with it ("object": a JSON
\* object, "null": the JSON value null, "invalid": not JSON); hasMessage and message
\* describe the object's `message` field.
Bodies ==
  { [parse |-> "object", hasMessage |-> TRUE, message |-> m] :
      m \in {"Row not found", "Request timeout", ""} }
  \cup { [parse |-> "object", hasMessage |-> FALSE, message |-> ""],
         [parse |-> "null", hasMessage |-> FALSE, message |-> ""],
         [parse |-> "invalid", hasMessage |-> FALSE, message |-> ""] }
  \cup { QueryBody }

NoBody == [parse |-> "none", hasMessage |-> FALSE, message |-> ""]

Response(status, body, n) ==
  [status |-> status, statusText |-> StatusText(status), body |-> body, from |-> n]

NoResponse == [status |-> 0, statusText |-> "", body |-> NoBody, from |-> -1]

Err(name, message, n) == [name |-> name, message |-> message, from |-> n]

NoError == Err("none", "", -1)

Whitespace == {" ", "\t"}

Chars == Whitespace \cup {"a"}

RECURSIVE StringsUpTo(_)
StringsUpTo(n) ==
  IF n = 0 THEN {<<>>}
  ELSE LET shorter == StringsUpTo(n - 1)
       IN shorter \cup { Append(s, c) : s \in {t \in shorter : Len(t) = n - 1}, c \in Chars }

Strings == StringsUpTo(MaxLen)

Wrappers == {"sendChatMessage", "processNaturalLanguageQuery", "createTask"}

(***************************************************************************)
(* Pure helpers of api.ts                                                  *)
(***************************************************************************)
RECURSIVE Pow2(_)
Pow2(n) == IF n = 0 THEN 1 ELSE 2 * Pow2(n - 1)

\* Mutant of BackoffDelay: a linear schedule.
BackoffDelayLinear(n) == RETRY_DELAY * (n + 1)

\* RETRY_DELAY * Math.pow(2, attempt)
BackoffDelay(n) == RETRY_DELAY * Pow2(n)

\* Mutant of Ok: no response counts as ok.
OkNever(status) == FALSE

\* Response.ok
Ok(status) == status >= 200 /\ status <= 299

\* Mutant of IsClientError: the lower end of the range is excluded.
IsClientErrorAbove400(status) == status > 400 /\ status < 500

\* response.status >= 400 && response.status < 500
IsClientError(status) == status >= 400 /\ status < 500

\* Mutant of RetryResponse: the !response.ok test is dropped.
RetryResponseAnyStatus(status, n, budget) == n < budget

\* !response.ok && attempt < retries
RetryResponse(status, n, budget) == ~Ok(status) /\ n < budget

\* Mutant of IsAbortError: the abort is looked for in the message, not the name.
IsAbortErrorByMessage(err) == err.message = "AbortError"

\* lastError.name === 'AbortError'
IsAbortError(err) == err.name = "AbortError"

\* Mutant of RetryError: an off-by-one that allows one attempt too many.
RetryErrorInclusive(n, budget) == n <= budget

\* attempt < retries, in the catch block
RetryError(n, budget) == n < budget

\* Mutant of FirstAttempt: the loop variable lives outside the function and keeps
\* the value the previous call left in it.
FirstAttemptRetained == attempt

\* for (let attempt = 0; ...): every call starts its own count.
FirstAttempt == 0

\* lastError = error instanceof Error ? error : new Error(String(error))
NextLastError(old, err) == err

\* The signal handed to fetch(): the combined controller's signal when the caller
\* gave options.signal, the timeout controller's signal otherwise.
FetchSignal(sig) == IF sig # "none" THEN "combined" ELSE "controller"

\* The controller the per-attempt setTimeout aborts.
TimerTarget == "controller"

\* Mutant of TimerDelay: the per-attempt timers are set to twice the constant.
TimerDelayDoubled == 2 * REQUEST_TIMEOUT

\* setTimeout(() => controller.abort(), REQUEST_TIMEOUT) and
\* createTimeout(REQUEST_TIMEOUT): when the timers of an attempt fire.
TimerDelay == REQUEST_TIMEOUT

\* Mutant of TimeoutRaced: fetch() is awaited alone.
TimeoutNotRaced == FALSE

\* Promise.race([fetch(...), createTimeout(REQUEST_TIMEOUT)]): the timeout promise
\* takes part in the race.
TimeoutRaced == TRUE

\* originalSignal.addEventListener('abort', ...): a listener added to a signal that
\* has already fired is never called.
ListenerArmed(sig) == sig = "armed"

RECURSIVE TrimStart(_)
TrimStart(s) == IF s # <<>> /\ Head(s) \in Whitespace THEN TrimStart(Tail(s)) ELSE s

RECURSIVE TrimEnd(_)
TrimEnd(s) ==
  IF s # <<>> /\ s[Len(s)] \in Whitespace THEN TrimEnd(SubSeq(s, 1, Len(s) - 1)) ELSE s

\* String.prototype.trim
Trim(s) == TrimEnd(TrimStart(s))

\* Mutant of IsBlank: the trim() test is dropped.
IsBlankNoTrim(s) == s = <<>>

\* !message || !message.trim()
IsBlank(s) == s = <<>> \/ Trim(s) = <<>>

ValidationMessage(f) ==
  CASE f = "sendChatMessage" -> "Message cannot be empty"
    [] f = "getETPTankCapacity" -> "Date and ETP Inlet tank value are required"
    [] OTHER -> "Query cannot be empty"

\* Which wrappers validate their string argument before the network call.
Validates(f) == f \in {"sendChatMessage", "processNaturalLanguageQuery"}

\* parseErrorResponse(response).message
ParseErrorMessage(resp) ==
  IF resp.body.parse = "object"
  THEN (IF resp.body.hasMessage /\ resp.body.message # ""
        THEN resp.body.message
        ELSE "An unknown error occurred")
  ELSE "HTTP " \o ToString(resp.status) \o ": " \o resp.statusText

\* The catch block of the wrappers that re-label timeouts.
RelabelledMessage(f) ==
  IF f = "processNaturalLanguageQuery"
  THEN "Query timed out. Please check your connection and try again."
  ELSE "Request timed out. Please check your connection and try again."

Relabels(f) ==
  f \in {"sendChatMessage", "processNaturalLanguageQuery", "exportQueryResults",
         "getETPTankCapacity"}

Relabel(f, message) ==
  IF Relabels(f) /\ message = "Request timeout" THEN RelabelledMessage(f) ELSE message

NoResult == [kind |-> "none", data |-> NoBody, message |-> ""]
\* Mutant of Resolved: the parsed body is rebuilt without its other fields.
ResolvedStripped(body) ==
  [kind |-> "resolved",
   data |-> [parse |-> body.parse, hasMessage |-> body.hasMessage, message |-> body.message],
   message |-> ""]

\* const data = await response.json(); return data
Resolved(body) == [kind |-> "resolved", data |-> body, message |-> ""]
Rejected(message) == [kind |-> "rejected", data |-> NoBody, message |-> message]

NoFetchResult == [kind |-> "none", response |-> NoResponse, error |-> NoError]
Returned(resp) == [kind |-> "returned", response |-> resp, error |-> NoError]
Thrown(err) == [kind |-> "thrown", response |-> NoResponse, error |-> err]

\* What a wrapper does with the settlement of its fetchWithRetry call.
WrapperResult(f, fr) ==
  IF f = "fetchWithRetry" THEN NoResult
  ELSE IF fr.kind = "thrown" THEN Rejected(Relabel(f, fr.error.message))
  ELSE IF ~Ok(fr.response.status)
       THEN Rejected(Relabel(f, ParseErrorMessage(fr.response)))
  ELSE IF fr.response.body.parse = "invalid"
       THEN Rejected("Unexpected token in JSON")
  ELSE Resolved(fr.response.body)

(***************************************************************************)
(* State after module load: no call has been made                          *)
(***************************************************************************)
NoOutcome == [response |-> NoResponse, error |-> NoError]

CallInit ==
  /\ pc = "idle"
  /\ fn = "none"
  /\ arg = <<>>
  /\ retries = 0
  /\ callerSignal = "none"
  /\ attempt = 0
  /\ attempts = 0
  /\ inflight = {}
  /\ listeners = {}
  /\ lastError = NoError
  /\ delays = <<>>
  /\ history = <<>>
  /\ lastOutcome = NoOutcome
  /\ fetchResult = NoFetchResult
  /\ result = NoResult

NoSummary == [attempts |-> 0, delays |-> <<>>, result |-> NoResult]

AnyBackend == [kind |-> "any", status |-> 0, body |-> NoBody]

NoUi == [mounted |-> FALSE]

\* TestQueriesPage after its first render.
IdlePage == [loading |-> FALSE, error |-> <<>>, result |-> <<>>, awaiting |-> FALSE]

\* No second call is running.
NoOther == <<"idle", "none", <<>>, 0, "none", 0, 0, {}, {}, NoError, <<>>, <<>>,
             NoOutcome, NoFetchResult, NoResult>>

TwoInit ==
  /\ other = NoOther
  /\ focus = 1
  /\ aborted = {}
  /\ timers = [c \in {1, 2} |-> {}]

\* TaskManager before it is rendered.
NoTasks == [mounted |-> FALSE]

Init ==
  /\ CallInit
  /\ elapsed = 0
  /\ callNo = 1
  /\ prev = NoSummary
  /\ backend = AnyBackend
  /\ ui = NoUi
  /\ late = {}
  /\ page = IdlePage
  /\ TwoInit
  /\ tm = NoTasks

(***************************************************************************)
(* Steps of fetchWithRetry                                                 *)
(***************************************************************************)
\* The top of a loop iteration up to `await Promise.race([fetch(...), ...])`:
\* controllers and timers are created, the listener is put on options.signal and
\* fetch() is issued for attempt n.
StartAttempt(n, sig) ==
  /\ pc' = "attempting"
  /\ attempt' = n
  /\ attempts' = attempts + 1
  /\ inflight' = inflight \cup {n}
  /\ listeners' = IF ListenerArmed(sig) THEN listeners \cup {n} ELSE listeners

\* fetchWithRetry returns or throws; the awaiting wrapper continues with it.
Settle(fr) ==
  /\ pc' = "done"
  /\ fetchResult' = fr
  /\ result' = WrapperResult(fn, fr)

\* await sleep(delay); continue
Backoff ==
  /\ pc' = "backoff"
  /\ delays' = Append(delays, BackoffDelay(attempt))
  /\ UNCHANGED <<fetchResult, result>>

\* The statements after the awaited race resolved with a response.
OnResponse(resp) ==
  /\ UNCHANGED lastError
  /\ IF IsClientError(resp.status)
     THEN Settle(Returned(resp)) /\ UNCHANGED delays
     ELSE IF RetryResponse(resp.status, attempt, retries)
          THEN Backoff
          ELSE Settle(Returned(resp)) /\ UNCHANGED delays

\* The catch block, and the throw after the loop when the budget is used up.
OnError(err) ==
  /\ lastError' = NextLastError(lastError, err)
  /\ IF IsAbortError(lastError')
     THEN Settle(Thrown(Err("Error", "Request timeout", attempt))) /\ UNCHANGED delays
     ELSE IF RetryError(attempt, retries)
          THEN Backoff
          ELSE Settle(Thrown(lastError')) /\ UNCHANGED delays

Record(kind, status, resp, err) ==
  /\ history' = Append(history, [kind |-> kind, status |-> status])
  /\ lastOutcome' = [response |-> resp, error |-> err]

(***************************************************************************)
(* Operations                                                              *)
(***************************************************************************)
\* A caller invokes a wrapper with a string argument.  A blank argument is rejected
\* before fetchWithRetry is entered; otherwise fetchWithRetry runs with the default
\* budget and without options.signal, up to its first await.
CallWrapper(f, s) ==
  /\ pc = "idle"
  /\ fn' = f
  /\ arg' = s
  /\ UNCHANGED <<callerSignal, lastError, delays, history, lastOutcome>>
  /\ IF Validates(f) /\ IsBlank(s)
     THEN /\ pc' = "done"
          /\ result' = Rejected(ValidationMessage(f))
          /\ UNCHANGED <<retries, attempt, attempts, inflight, listeners, fetchResult>>
     ELSE /\ retries' = MAX_RETRIES
          /\ StartAttempt(FirstAttempt, "none")
          /\ UNCHANGED <<fetchResult, result>>

\* fetchWithRetry called with an explicit budget and, possibly, options.signal
\* (sig = "aborted": the signal had already fired when the call began).
CallFetch(budget, sig) ==
  /\ pc = "idle"
  /\ fn' = "fetchWithRetry"
  /\ retries' = budget
  /\ callerSignal' = sig
  /\ StartAttempt(FirstAttempt, sig)
  /\ UNCHANGED <<arg, lastError, delays, history, lastOutcome, fetchResult, result>>

\* fetch() of the current attempt resolves with a response.
FetchResolves(status, body) ==
  /\ pc = "attempting"
  /\ attempt \in inflight
  /\ LET resp == Response(status, body, attempt)
     IN /\ Record("response", status, resp, NoError)
        /\ OnResponse(resp)
  /\ inflight' = inflight \ {attempt}
  /\ UNCHANGED <<fn, arg, retries, callerSignal, attempt, attempts, listeners>>

\* fetch() of the current attempt rejects with a transport failure.
FetchRejects ==
  /\ pc = "attempting"
  /\ attempt \in inflight
  /\ LET err == Err("TypeError", "Failed to fetch", attempt)
     IN /\ Record("network", 0, NoResponse, err)
        /\ OnError(err)
  /\ inflight' = inflight \ {attempt}
  /\ UNCHANGED <<fn, arg, retries, callerSignal, attempt, attempts, listeners>>

\* REQUEST_TIMEOUT ms after the attempt began its two timers fire, the abort timer
\* first.  When its controller's signal is the one fetch() holds, fetch() rejects
\* with an AbortError; otherwise fetch() goes on and the race is lost to
\* createTimeout's rejection, a plain Error('Request timeout').
TimeoutFires ==
  /\ pc = "attempting"
  /\ attempt \in inflight
  /\ IF FetchSignal(callerSignal) = TimerTarget
     THEN LET err == Err("AbortError", "The operation was aborted.", attempt)
          IN /\ Record("timeout", 0, NoResponse, err)
             /\ OnError(err)
             /\ inflight' = inflight \ {attempt}
     ELSE LET err == Err("Error", "Request timeout", attempt)
          IN /\ TimeoutRaced
             /\ Record("timeout", 0, NoResponse, err)
             /\ OnError(err)
             /\ UNCHANGED inflight
  /\ UNCHANGED <<fn, arg, retries, callerSignal, attempt, attempts, listeners>>

\* options.signal fires: every listener put on it runs and aborts its combined
\* controller, so every fetch() holding such a signal rejects with an AbortError.
CallerAborts ==
  /\ pc # "idle"
  /\ callerSignal = "armed"
  /\ callerSignal' = "aborted"
  /\ inflight' = inflight \ listeners
  /\ listeners' = {}
  /\ IF pc = "attempting" /\ attempt \in inflight /\ attempt \in listeners
     THEN LET err == Err("AbortError", "The operation was aborted.", attempt)
          IN /\ Record("cancel", 0, NoResponse, err)
             /\ OnError(err)
     ELSE UNCHANGED <<pc, lastError, delays, history, lastOutcome, fetchResult, result>>
  /\ UNCHANGED <<fn, arg, retries, attempt, attempts>>

\* The backoff sleep ends: attempt++ and the next iteration issues the next fetch().
SleepElapses ==
  /\ pc = "backoff"
  /\ StartAttempt(attempt + 1, callerSignal)
  /\ UNCHANGED <<fn, arg, retries, callerSignal, lastError, delays, history,
                 lastOutcome, fetchResult, result>>

\* A fetch() that the retry loop no longer waits for settles on its own.
StaleFetchSettles(n) ==
  /\ n \in inflight
  /\ pc # "attempting" \/ n # attempt
  /\ inflight' = inflight \ {n}
  /\ UNCHANGED <<pc, fn, arg, retries, callerSignal, attempt, attempts, listeners,
                 lastError, delays, history, lastOutcome, fetchResult, result>>

\* One logical call on its own: time, the second call and the component are left out.
CallOnly == UNCHANGED <<elapsed, seqVars, uiVars, twoVars, tm>>

Next ==
  \/ \E f \in Wrappers, s \in Strings : CallWrapper(f, s) /\ CallOnly
  \/ \E budget \in 0..MaxBudget, sig \in {"none", "armed", "aborted"} :
        CallFetch(budget, sig) /\ CallOnly
  \/ \E status \in Statuses, body \in Bodies : FetchResolves(status, body) /\ CallOnly
  \/ FetchRejects /\ CallOnly
  \/ TimeoutFires /\ CallOnly
  \/ CallerAborts /\ CallOnly
  \/ SleepElapses /\ CallOnly
  \/ \E n \in 0..(MaxBudget + 1) : StaleFetchSettles(n) /\ CallOnly

Spec == Init /\ [][Next]_vars

\* Timers registered with setTimeout fire: the per-attempt timeout while the attempt
\* is still awaited, and the backoff sleep.
FairSpec ==
  /\ Spec
  /\ WF_vars(TimeoutFires /\ CallOnly)
  /\ WF_vars(SleepElapses /\ CallOnly)

(***************************************************************************)
(* Two calls of getSyncStatus in sequence against an unchanged backend     *)
(***************************************************************************)
\* What an unchanged backend can do with GET /sync/status: answer with one fixed
\* response, fail at the transport every time, or never answer.
Backends ==
  { [kind |-> "responds", status |-> status, body |-> body] :
      status \in Statuses, body \in Bodies }
  \cup { [kind |-> "fails", status |-> 0, body |-> NoBody],
         [kind |-> "hangs", status |-> 0, body |-> NoBody] }

SeqInit ==
  /\ CallInit
  /\ elapsed = 0
  /\ callNo = 1
  /\ prev = NoSummary
  /\ backend \in Backends
  /\ ui = NoUi
  /\ late = {}
  /\ page = IdlePage
  /\ TwoInit
  /\ tm = NoTasks

\* The first call settled and nothing of it is in flight; the caller notes what it
\* got and invokes getSyncStatus again.  The second invocation runs fetchWithRetry
\* from its first line: lastError = null, the loop variable at its initial value,
\* the default budget, no options.signal.
CallAgain ==
  /\ callNo = 1
  /\ pc = "done"
  /\ inflight = {}
  /\ callNo' = 2
  /\ prev' = [attempts |-> attempts, delays |-> delays, result |-> result]
  /\ pc' = "attempting"
  /\ retries' = MAX_RETRIES
  /\ lastError' = NoError
  /\ attempt' = FirstAttempt
  /\ attempts' = 1
  /\ inflight' = {attempt'}
  /\ listeners' = {}
  /\ delays' = <<>>
  /\ history' = <<>>
  /\ lastOutcome' = NoOutcome
  /\ fetchResult' = NoFetchResult
  /\ result' = NoResult
  /\ UNCHANGED <<fn, arg, callerSignal, backend>>

SeqOnly == UNCHANGED <<elapsed, uiVars, twoVars, tm>>

SameCall == UNCHANGED seqVars

SeqNext ==
  \/ CallWrapper("getSyncStatus", <<>>) /\ SameCall /\ SeqOnly
  \/ /\ backend.kind = "responds"
     /\ FetchResolves(backend.status, backend.body) /\ SameCall /\ SeqOnly
  \/ backend.kind = "fails" /\ FetchRejects /\ SameCall /\ SeqOnly
  \/ backend.kind = "hangs" /\ TimeoutFires /\ SameCall /\ SeqOnly
  \/ SleepElapses /\ SameCall /\ SeqOnly
  \/ CallAgain /\ SeqOnly

SeqSpec == SeqInit /\ [][SeqNext]_vars

(***************************************************************************)
(* One logical call with the clock: how long each await lasts              *)
(***************************************************************************)
\* How long fetch() can take to settle before the timers of its attempt fire.
AttemptDurations == {1, TimerDelay}

RECURSIVE SumSeq(_)
SumSeq(s) == IF s = <<>> THEN 0 ELSE Head(s) + SumSeq(Tail(s))

Tick(d) == elapsed' = elapsed + d

TimedOnly == UNCHANGED <<seqVars, uiVars, twoVars, tm>>

TimedNext ==
  \/ \E f \in Wrappers : CallWrapper(f, <<"a">>) /\ UNCHANGED elapsed /\ TimedOnly
  \/ \E budget \in 0..MaxBudget, sig \in {"none", "armed", "aborted"} :
        CallFetch(budget, sig) /\ UNCHANGED elapsed /\ TimedOnly
  \/ \E status \in Statuses, d \in AttemptDurations :
        FetchResolves(status, QueryBody) /\ Tick(d) /\ TimedOnly
  \/ \E d \in AttemptDurations : FetchRejects /\ Tick(d) /\ TimedOnly
  \/ TimeoutFires /\ Tick(TimerDelay) /\ TimedOnly
  \/ \E d \in AttemptDurations :
        /\ CallerAborts
        /\ IF pc = "attempting" THEN Tick(d) ELSE UNCHANGED elapsed
        /\ TimedOnly
  \/ SleepElapses /\ Tick(delays[Len(delays)]) /\ TimedOnly
  \/ \E n \in 0..(MaxBudget + 1) : StaleFetchSettles(n) /\ UNCHANGED elapsed /\ TimedOnly

TimedSpec == Init /\ [][TimedNext]_vars

(***************************************************************************)
(* The chat component (AnimatedAIChat) and the calls its handlers await    *)
(***************************************************************************)
\* null, and a value that is not null.
Null == <<>>

Some(x) == <<x>>

\* body[name], or the given value where JavaScript reads undefined.
Field(body, name, undefined) == IF name \in DOMAIN body THEN body[name] ELSE undefined

Digits == {"0", "5"}

DigitValue(c) == IF c = "5" THEN 5 ELSE 0

\* parseFloat of a string of digits.
RECURSIVE ParseFloat(_)
ParseFloat(s) ==
  IF s = <<>> THEN 0 ELSE 10 * ParseFloat(SubSeq(s, 1, Len(s) - 1)) + DigitValue(s[Len(s)])

\* What the user can have typed into the message box.
ChatInputs == {<<"a">>, <<"5">>, <<" ", "a">>}

\* What the user can have typed into the two fields of the ETP dialog.
EtpDates == {<<>>, <<"5">>}

EtpValues == {<<>>, <<"0">>, <<"5">>}

\* The isDataQuery heuristics of handleSendMessage: a keyword, a date, a time or a
\* number in the message (of the inputs above, only a number occurs).
IsDataQuery(s) == \E i \in 1..Len(s) : s[i] \in Digits

\* !request.date || !request.etp_inlet_tank_value
EtpInvalid(date, v) == date = <<>> \/ v = 0

\* An ExportQueryResultsResponse body: success true and a sheet_url, no answer.
ExportBody ==
  [parse |-> "object", hasMessage |-> FALSE, message |-> "",
   success |-> TRUE, sheet_url |-> "https://sheet"]

\* The backend answers the component's calls can get.
ChatStatuses == {200, 404}

ChatBodies == {QueryBody, ExportBody}

\* The component after its first render and its mount effect.  calls, queryOutcome
\* and cleared record what happened: the API calls of the latest send, how its query
\* call ended, and which error each dismiss timer cleared.  An error and a timer carry
\* the number of the handler invocation that set them and that handler's name (as in
\* awaiting); a timer also carries the text of the message it was set with.
MountedUi ==
  [mounted |-> TRUE, abortCtl |-> "null", awaiting |-> "none", isTyping |-> FALSE,
   messages |-> <<>>, hasQueryData |-> FALSE, userMessage |-> <<>>,
   error |-> Null, isSyncing |-> FALSE, syncSuccess |-> Null,
   isLoadingETP |-> FALSE, etpData |-> Null, showETPModal |-> FALSE,
   exportingToSheets |-> Null, exportSuccess |-> Null,
   timers |-> {}, ops |-> 0,
   calls |-> <<>>, queryOutcome |-> "none", cleared |-> {}]

ChatInit ==
  /\ CallInit
  /\ elapsed = 0
  /\ callNo = 1
  /\ prev = NoSummary
  /\ backend = AnyBackend
  /\ ui = MountedUi
  /\ late = {}
  /\ page = IdlePage
  /\ TwoInit
  /\ tm = NoTasks

\* A handler calls wrapper f: the wrapper's validation, then fetchWithRetry with the
\* default budget and without options.signal, up to its first await.
BeginCall(f, s, invalid) ==
  /\ fn' = f
  /\ arg' = s
  /\ callerSignal' = "none"
  /\ lastError' = NoError
  /\ delays' = <<>>
  /\ history' = <<>>
  /\ lastOutcome' = NoOutcome
  /\ fetchResult' = NoFetchResult
  /\ listeners' = {}
  /\ IF invalid
     THEN /\ pc' = "done"
          /\ result' = Rejected(ValidationMessage(f))
          /\ retries' = 0
          /\ attempt' = 0
          /\ attempts' = 0
          /\ inflight' = {}
     ELSE /\ pc' = "attempting"
          /\ result' = NoResult
          /\ retries' = MAX_RETRIES
          /\ attempt' = FirstAttempt
          /\ attempts' = 1
          /\ inflight' = {attempt'}

\* The awaited call has been consumed by its handler; nothing of it remains.
IdleCall ==
  /\ pc' = "idle"
  /\ fn' = "none"
  /\ arg' = <<>>
  /\ retries' = 0
  /\ callerSignal' = "none"
  /\ attempt' = 0
  /\ attempts' = 0
  /\ inflight' = {}
  /\ listeners' = {}
  /\ lastError' = NoError
  /\ delays' = <<>>
  /\ history' = <<>>
  /\ lastOutcome' = NoOutcome
  /\ fetchResult' = NoFetchResult
  /\ result' = NoResult

\* State setters called without a mounted check: applied while the component is
\* mounted, called on an unmounted component otherwise.
ApplySetters(u, updates) ==
  IF u.mounted
  THEN [k \in DOMAIN u |-> IF k \in DOMAIN updates THEN updates[k] ELSE u[k]]
  ELSE u

LateSetters(u, by, updates) ==
  IF u.mounted THEN {} ELSE { [by |-> by, setter |-> k] : k \in DOMAIN updates }

\* Mutant of Finally: the handler has no finally block.
WithoutFinally(updates, reset) == updates

\* try { ... } catch { ... } finally { setBusy(idle) }: the reset follows the updates
\* of either path.
Finally(updates, reset) == reset @@ updates

\* setError(message), by the handler invocation running now.
ErrorOf(message) == Some([text |-> message, by |-> ui.ops, handler |-> ui.awaiting])

\* setTimeout(() => setX(null), delay), by the handler invocation running now.
TimerFor(field, text) ==
  [clears |-> field, op |-> ui.ops, text |-> text, handler |-> ui.awaiting]

\* The delay a dismiss timer is set with.
DismissDelay(field) == IF field = "syncSuccess" THEN 3000 ELSE 5000

\* Timers and unmounting are tasks: they run only when no continuation of a settled
\* promise (a microtask) is waiting to run.
NoMicrotask == ~(pc = "done" /\ (ui.awaiting # "none" \/ page.awaiting))

\* A user event reaches a handler of the rendered component.  One call of the
\* component is followed at a time.
CanHandle ==
  /\ ui.mounted
  /\ ui.awaiting = "none"
  /\ ui.ops < MaxOps
  /\ pc = "idle"

\* Mutant of SendBlocked: the isTyping test is dropped.
SendBlockedIgnoresTyping(v) == IsBlank(v) \/ ~ui.mounted

\* if (!value.trim() || isTyping || !isMountedRef.current) return;
SendBlocked(v) == IsBlank(v) \/ ui.isTyping \/ ~ui.mounted

\* Mutant of QueryAnswered: any resolved query counts as answered.
QueryAnsweredAlways(r) == r.kind = "resolved"

\* queryResult.success && queryResult.answer
QueryAnswered(r) ==
  /\ r.kind = "resolved"
  /\ r.data.parse = "object"
  /\ Field(r.data, "success", FALSE)
  /\ Field(r.data, "answer", "") # ""

\* handleSendMessage up to its first await.  The event can arrive while a send is
\* pending; calls of the other handlers are not followed at the same time.
HandleSendMessage(v) ==
  /\ ui.mounted
  /\ ui.ops < MaxOps
  /\ ui.awaiting \notin {"sync", "etp", "export"}
  /\ ~page.awaiting
  /\ NoMicrotask
  /\ ~SendBlocked(v)
  /\ LET userMessage == Trim(v)
         first == IF IsDataQuery(userMessage) THEN "processNaturalLanguageQuery"
                                               ELSE "sendChatMessage"
     IN /\ ui' = [ui EXCEPT !.error = Null,
                            !.abortCtl = "live",
                            !.messages = Append(@, "user"),
                            !.isTyping = TRUE,
                            !.userMessage = userMessage,
                            !.awaiting = IF IsDataQuery(userMessage) THEN "query" ELSE "chat",
                            !.ops = @ + 1,
                            !.calls = <<[f |-> first, arg |-> userMessage]>>,
                            !.queryOutcome = "none"]
        /\ BeginCall(first, userMessage, IsBlank(userMessage))
  /\ UNCHANGED <<late, page>>

\* The end of handleSendMessage: the guarded success or error update and finally.
FinishSend(failed, message, queryData) ==
  LET live == ui.mounted /\ ui.abortCtl # "aborted"
  IN [ui EXCEPT !.awaiting = "none",
                !.messages = IF live THEN Append(@, "assistant") ELSE @,
                !.hasQueryData = IF live /\ queryData THEN TRUE ELSE @,
                !.error = IF live /\ failed THEN ErrorOf(message) ELSE @,
                !.isTyping = IF ui.mounted THEN FALSE ELSE @]

\* response = await sendChatMessage(userMessage)
CallChat(next) ==
  /\ ui' = [ui EXCEPT !.awaiting = next,
                      !.calls = Append(@, [f |-> "sendChatMessage", arg |-> ui.userMessage]),
                      !.queryOutcome = IF ui.awaiting = "query"
                                       THEN (IF result.kind = "rejected" THEN "rejected"
                                                                         ELSE "unanswered")
                                       ELSE @]
  /\ BeginCall("sendChatMessage", ui.userMessage, IsBlank(ui.userMessage))

\* processNaturalLanguageQuery settled: its answer is used; or, still inside the try
\* block, sendChatMessage is called; or, in the catch block, sendChatMessage is called.
QuerySettled ==
  /\ pc = "done"
  /\ ui.awaiting = "query"
  /\ IF QueryAnswered(result)
     THEN /\ ui' = [FinishSend(FALSE, "", TRUE) EXCEPT !.queryOutcome = "answered"]
          /\ IdleCall
     ELSE IF result.kind = "resolved" /\ result.data.parse = "object"
          THEN CallChat("fallback")
          ELSE CallChat("chat")
  /\ UNCHANGED <<late, page>>

\* The sendChatMessage call made inside the try block settled: a rejection is caught
\* by the same catch block, which calls sendChatMessage.
FallbackSettled ==
  /\ pc = "done"
  /\ ui.awaiting = "fallback"
  /\ IF result.kind = "resolved"
     THEN ui' = FinishSend(FALSE, "", FALSE) /\ IdleCall
     ELSE CallChat("chat")
  /\ UNCHANGED <<late, page>>

\* sendChatMessage settled (the call of the catch block, or of a non-data message).
ChatSettled ==
  /\ pc = "done"
  /\ ui.awaiting = "chat"
  /\ ui' = FinishSend(result.kind = "rejected", result.message, FALSE)
  /\ IdleCall
  /\ UNCHANGED <<late, page>>

\* handleSync up to its await.
HandleSync ==
  /\ CanHandle
  /\ ui' = [ui EXCEPT !.isSyncing = TRUE, !.error = Null, !.syncSuccess = Null,
                      !.awaiting = "sync", !.ops = @ + 1]
  /\ BeginCall("syncSheets", <<>>, FALSE)
  /\ UNCHANGED <<late, page>>

\* syncSheets settled: the rest of handleSync.
SyncSettled ==
  /\ pc = "done"
  /\ ui.awaiting = "sync"
  /\ LET updates == Finally(IF result.kind = "resolved"
                            THEN [syncSuccess |-> Some("Synced to latest data")]
                            ELSE [error |-> ErrorOf(result.message)],
                            [isSyncing |-> FALSE])
         timer == IF result.kind = "resolved" THEN TimerFor("syncSuccess", "")
                                              ELSE TimerFor("error", result.message)
     IN /\ ui' = [ApplySetters(ui, updates) EXCEPT !.awaiting = "none",
                                                   !.timers = @ \cup {timer}]
        /\ late' = late \cup LateSetters(ui, "handleSync", updates)
        /\ UNCHANGED page
  /\ IdleCall

\* handleExportToSheets, for a message that carries queryData, up to its await (or
\* its early return when the message has no raw_data).
HandleExportToSheets(hasRawData) ==
  /\ CanHandle
  /\ ui.hasQueryData
  /\ IF ~hasRawData
     THEN /\ ui' = [ui EXCEPT !.ops = @ + 1,
                              !.error = Some([text |-> "No data available to export",
                                              by |-> ui.ops + 1, handler |-> "export"]),
                              !.timers = @ \cup {[clears |-> "error", op |-> ui.ops + 1,
                                                  text |-> "No data available to export",
                                                  handler |-> "export"]}]
          /\ UNCHANGED callVars
     ELSE /\ ui' = [ui EXCEPT !.exportingToSheets = Some(Len(ui.messages)),
                              !.error = Null,
                              !.awaiting = "export", !.ops = @ + 1]
          /\ BeginCall("exportQueryResults", ui.userMessage, IsBlank(ui.userMessage))
  /\ UNCHANGED <<late, page>>

\* exportQueryResults settled: the rest of handleExportToSheets.
ExportSettled ==
  /\ pc = "done"
  /\ ui.awaiting = "export"
  /\ LET ok == /\ result.kind = "resolved"
               /\ Field(result.data, "success", FALSE)
               /\ Field(result.data, "sheet_url", "") # ""
         message == IF result.kind = "rejected" THEN result.message
                    ELSE IF Field(result.data, "error", "") # ""
                         THEN result.data.error
                         ELSE "Failed to export to Google Sheets"
         updates == Finally(IF ok THEN [exportSuccess |-> Some(result.data.sheet_url)]
                                  ELSE [error |-> ErrorOf(message)],
                            [exportingToSheets |-> Null])
         timer == IF ok THEN TimerFor("exportSuccess", "") ELSE TimerFor("error", message)
     IN /\ ui' = [ApplySetters(ui, updates) EXCEPT !.awaiting = "none",
                                                   !.timers = @ \cup {timer}]
        /\ late' = late \cup LateSetters(ui, "handleExportToSheets", updates)
        /\ UNCHANGED page
  /\ IdleCall

\* handleETPSubmit up to its await (or its early return).
HandleETPSubmit(date, v) ==
  /\ CanHandle
  /\ IF date = <<>> \/ v = <<>>
     THEN /\ ui' = [ui EXCEPT !.ops = @ + 1,
                              !.error = Some([text |-> "Please enter both date and ETP Inlet tank value",
                                              by |-> ui.ops + 1, handler |-> "etp"]),
                              !.timers = @ \cup {[clears |-> "error", op |-> ui.ops + 1,
                                                  text |-> "Please enter both date and ETP Inlet tank value",
                                                  handler |-> "etp"]}]
          /\ UNCHANGED callVars
     ELSE /\ ui' = [ui EXCEPT !.isLoadingETP = TRUE, !.error = Null,
                              !.awaiting = "etp", !.ops = @ + 1]
          /\ BeginCall("getETPTankCapacity", <<date, ParseFloat(v)>>,
                       EtpInvalid(date, ParseFloat(v)))
  /\ UNCHANGED <<late, page>>

\* getETPTankCapacity settled: the rest of handleETPSubmit.
EtpSettled ==
  /\ pc = "done"
  /\ ui.awaiting = "etp"
  /\ LET ok == result.kind = "resolved" /\ Field(result.data, "success", FALSE)
         message == IF result.kind = "rejected" THEN result.message
                    ELSE IF Field(result.data, "message", "") # ""
                         THEN result.data.message
                         ELSE "Failed to get ETP tank capacity"
         updates == Finally(IF ok THEN [etpData |-> Some(result.data), showETPModal |-> FALSE]
                                  ELSE [error |-> ErrorOf(message)],
                            [isLoadingETP |-> FALSE])
     IN /\ ui' = [ApplySetters(ui, updates) EXCEPT
                    !.awaiting = "none",
                    !.timers = IF ok THEN @ ELSE @ \cup {TimerFor("error", message)}]
        /\ late' = late \cup LateSetters(ui, "handleETPSubmit", updates)
        /\ UNCHANGED page
  /\ IdleCall

\* A dismiss timer fires: setTimeout(() => setError(null), 5000) and the like.  A
\* timer set earlier with a delay that is not longer fires first.
DismissFires(t) ==
  /\ NoMicrotask
  /\ t \in ui.timers
  /\ \A t2 \in ui.timers :
       ~(t2.op < t.op /\ DismissDelay(t2.clears) <= DismissDelay(t.clears))
  /\ LET updates == CASE t.clears = "error" -> [error |-> Null]
                      [] t.clears = "syncSuccess" -> [syncSuccess |-> Null]
                      [] OTHER -> [exportSuccess |-> Null]
         clearsError == ui.mounted /\ t.clears = "error" /\ ui.error # Null
     IN /\ ui' = [ApplySetters(ui, updates) EXCEPT
                    !.timers = @ \ {t},
                    !.cleared = IF clearsError
                                THEN @ \cup {[timer |-> t.op, timerText |-> t.text,
                                              timerHandler |-> t.handler,
                                              error |-> ui.error[1].by,
                                              errorText |-> ui.error[1].text,
                                              errorHandler |-> ui.error[1].handler]}
                                ELSE @]
        /\ late' = late \cup LateSetters(ui, "timer", updates)
        /\ UNCHANGED page
  /\ UNCHANGED callVars

\* The cleanup of the mount effect: the mounted flag is cleared and the retained
\* controller aborted.  The abort reaches the fetch() calls that hold a signal
\* derived from it.
Unmount ==
  /\ NoMicrotask
  /\ ui.mounted
  /\ ui' = [ui EXCEPT !.mounted = FALSE,
                      !.abortCtl = IF @ = "live" THEN "aborted" ELSE @]
  /\ IF ui.abortCtl = "live" /\ callerSignal = "armed"
     THEN CallerAborts
     ELSE UNCHANGED callVars
  /\ UNCHANGED <<late, page>>

\* handleQuery of the test-queries page up to its await.
HandleQuery(v) ==
  /\ pc = "idle"
  /\ ui.awaiting = "none"
  /\ ~page.awaiting
  /\ ui.ops < MaxOps
  /\ ~IsBlank(v)
  /\ page' = [page EXCEPT !.loading = TRUE, !.error = Null, !.result = Null,
                          !.awaiting = TRUE]
  /\ ui' = [ui EXCEPT !.ops = @ + 1]
  /\ BeginCall("processNaturalLanguageQuery", v, IsBlank(v))
  /\ UNCHANGED late

\* processNaturalLanguageQuery settled: the rest of handleQuery.
PageQuerySettled ==
  /\ pc = "done"
  /\ page.awaiting
  /\ LET updates == Finally(IF result.kind = "resolved"
                            THEN [result |-> Some(result.data)]
                            ELSE [error |-> Some(result.message)],
                            [loading |-> FALSE])
     IN page' = [[k \in DOMAIN page |-> IF k \in DOMAIN updates THEN updates[k] ELSE page[k]]
                   EXCEPT !.awaiting = FALSE]
  /\ IdleCall
  /\ UNCHANGED <<ui, late>>

ChatOnly == UNCHANGED <<elapsed, seqVars, twoVars, tm>>

ChatNext ==
  \/ \E v \in ChatInputs : HandleSendMessage(v) /\ ChatOnly
  \/ QuerySettled /\ ChatOnly
  \/ FallbackSettled /\ ChatOnly
  \/ ChatSettled /\ ChatOnly
  \/ HandleSync /\ ChatOnly
  \/ SyncSettled /\ ChatOnly
  \/ \E hasRawData \in BOOLEAN : HandleExportToSheets(hasRawData) /\ ChatOnly
  \/ ExportSettled /\ ChatOnly
  \/ \E date \in EtpDates, v \in EtpValues : HandleETPSubmit(date, v) /\ ChatOnly
  \/ EtpSettled /\ ChatOnly
  \/ \E v \in ChatInputs : HandleQuery(v) /\ ChatOnly
  \/ PageQuerySettled /\ ChatOnly
  \/ \E t \in ui.timers : DismissFires(t) /\ ChatOnly
  \/ Unmount /\ ChatOnly
  \/ \E status \in ChatStatuses, body \in ChatBodies :
        FetchResolves(status, body) /\ ChatOnly /\ UNCHANGED uiVars
  \/ FetchRejects /\ ChatOnly /\ UNCHANGED uiVars
  \/ TimeoutFires /\ ChatOnly /\ UNCHANGED uiVars
  \/ SleepElapses /\ ChatOnly /\ UNCHANGED uiVars

ChatSpec == ChatInit /\ [][ChatNext]_vars

\* The continuation of the handler that awaits the settled call (at most one is
\* waiting at a time).
Continuation ==
  \/ QuerySettled
  \/ FallbackSettled
  \/ ChatSettled
  \/ SyncSettled
  \/ ExportSettled
  \/ EtpSettled
  \/ PageQuerySettled

\* Timers fire and the continuations of settled promises run.
FairChatSpec ==
  /\ ChatSpec
  /\ WF_vars((TimeoutFires \/ SleepElapses) /\ ChatOnly /\ UNCHANGED uiVars)
  /\ WF_vars(Continuation /\ ChatOnly)

(***************************************************************************)
(* TaskManager: the task list, its filter buttons and loadTasks            *)
(***************************************************************************)
MaxLoads == 3       \* loadTasks requests followed on one TaskManager

TaskFilters == {"all", "pending", "in_progress", "completed"}

\* The tasks the backend holds for the user while the component is followed.
TaskStore == { [id |-> 1, status |-> "pending"], [id |-> 2, status |-> "completed"] }

\* listTasks(userId, status): GET /tasks with the status parameter left out when
\* status is undefined; the backend answers with the tasks of that status.
ListTasks(status) == { t \in TaskStore : status = Null \/ t.status = Field(status, 1, "") }

\* const status = filter === 'all' ? undefined : filter
StatusOf(filter) == IF filter = "all" THEN Null ELSE Some(filter)

\* useState initial values of TaskManager, with the model's record of the
\* listTasks calls it has made.
FirstRender ==
  [mounted |-> TRUE, filter |-> "all", tasks |-> {}, loading |-> FALSE, error |-> Null,
   pending |-> {}, issued |-> 0, failed |-> 0]

\* loadTasks up to its await: setLoading(true), setError(null), listTasks called
\* with the filter of the render the effect belongs to.
LoadTasks(t) ==
  [t EXCEPT !.loading = TRUE,
            !.error = Null,
            !.pending = @ \cup { [id |-> t.issued + 1, filter |-> t.filter] },
            !.issued = @ + 1]

\* The component is rendered and its effect runs loadTasks for the first time.
RenderTaskManager ==
  /\ tm = NoTasks
  /\ tm' = LoadTasks(FirstRender)

\* A filter button is clicked: setFilter(f); the re-render with a changed filter
\* runs the effect, which calls loadTasks.  The buttons are never disabled.
SetFilter(f) ==
  /\ tm.mounted
  /\ f # tm.filter
  /\ tm.issued < MaxLoads
  /\ tm' = LoadTasks([tm EXCEPT !.filter = f])

\* The listTasks call of request r resolves: setTasks(taskList), then the finally
\* block's setLoading(false).
ListTasksResolves(r) ==
  /\ tm.mounted
  /\ r \in tm.pending
  /\ tm' = [tm EXCEPT !.tasks = ListTasks(StatusOf(r.filter)),
                      !.loading = FALSE,
                      !.pending = @ \ {r}]

\* The listTasks call of request r rejects: setError(err.message), then the
\* finally block's setLoading(false).
ListTasksRejects(r) ==
  /\ tm.mounted
  /\ r \in tm.pending
  /\ tm' = [tm EXCEPT !.error = Some("Failed to fetch"),
                      !.loading = FALSE,
                      !.pending = @ \ {r},
                      !.failed = @ + 1]

TaskRequests == [id : 1..MaxLoads, filter : TaskFilters]

TaskOnly == UNCHANGED <<callVars, elapsed, seqVars, uiVars, twoVars>>

TaskNext ==
  \/ RenderTaskManager /\ TaskOnly
  \/ \E f \in TaskFilters : SetFilter(f) /\ TaskOnly
  \/ \E r \in TaskRequests : ListTasksResolves(r) /\ TaskOnly
  \/ \E r \in TaskRequests : ListTasksRejects(r) /\ TaskOnly

TaskSpec == Init /\ [][TaskNext]_vars

(***************************************************************************)
(* Two logical calls of fetchWithRetry running concurrently                *)
(***************************************************************************)
MaxTwoBudget == 1   \* retry budgets 0..MaxTwoBudget are tried on concurrent calls

TwoStatuses == {200, 500}

\* Mutant of Controller: one AbortController at module level, shared by every
\* attempt of every call.
ControllerModuleLevel(call, n) == [call |-> 0, attempt |-> 0]

\* const controller = new AbortController(), first statement of the loop body of
\* fetchWithRetry: a new object in every iteration of every call.
Controller(call, n) == [call |-> call, attempt |-> n]

\* The race of the awaited attempt is about to reject: fetch() holds the signal of
\* a controller that has been aborted, or, when fetch() holds the combined signal,
\* the attempt's createTimeout timer has fired.
AbortPending ==
  /\ pc = "attempting"
  /\ attempt \in inflight
  /\ IF FetchSignal(callerSignal) = TimerTarget
     THEN Controller(focus, attempt) \in aborted
     ELSE attempt \in timers[focus]

\* The timers of the awaited attempt fire: setTimeout's callback calls
\* controller.abort() and createTimeout's callback rejects its promise.
TimersFire ==
  /\ pc = "attempting"
  /\ attempt \in inflight
  /\ attempt \notin timers[focus]
  /\ ~AbortPending
  /\ aborted' = aborted \cup { Controller(focus, attempt) }
  /\ timers' = [timers EXCEPT ![focus] = @ \cup {attempt}]
  /\ UNCHANGED <<callVars, other, focus>>

\* The rejection reaches the retry loop of the call: its catch block runs.
RaceRejects ==
  /\ AbortPending
  /\ TimeoutFires
  /\ UNCHANGED twoVars

\* Any other step of the call the call variables describe.
OwnStep(step) ==
  /\ ~AbortPending
  /\ step
  /\ UNCHANGED twoVars

\* The event loop turns to the other call: the call variables now describe it.
Switch ==
  /\ ~AbortPending
  /\ pc' = other[1]
  /\ fn' = other[2]
  /\ arg' = other[3]
  /\ retries' = other[4]
  /\ callerSignal' = other[5]
  /\ attempt' = other[6]
  /\ attempts' = other[7]
  /\ inflight' = other[8]
  /\ listeners' = other[9]
  /\ lastError' = other[10]
  /\ delays' = other[11]
  /\ history' = other[12]
  /\ lastOutcome' = other[13]
  /\ fetchResult' = other[14]
  /\ result' = other[15]
  /\ other' = callVars
  /\ focus' = 3 - focus
  /\ UNCHANGED <<aborted, timers>>

TwoOnly == UNCHANGED <<elapsed, seqVars, uiVars, tm>>

TwoNext ==
  \/ \E budget \in 0..MaxTwoBudget, sig \in {"none", "armed"} :
        OwnStep(CallFetch(budget, sig)) /\ TwoOnly
  \/ \E status \in TwoStatuses : OwnStep(FetchResolves(status, QueryBody)) /\ TwoOnly
  \/ OwnStep(FetchRejects) /\ TwoOnly
  \/ TimersFire /\ TwoOnly
  \/ RaceRejects /\ TwoOnly
  \/ OwnStep(CallerAborts) /\ TwoOnly
  \/ OwnStep(SleepElapses) /\ TwoOnly
  \/ \E n \in 0..MaxTwoBudget : OwnStep(StaleFetchSettles(n)) /\ TwoOnly
  \/ Switch /\ TwoOnly

TwoSpec == Init /\ [][TwoNext]_vars

TypeOK ==
  /\ pc \in {"idle", "attempting", "backoff", "done"}
  /\ attempt \in 0..(MaxBudget + MAX_RETRIES)
  /\ attempts \in 0..(MaxBudget + MAX_RETRIES + 1)
  /\ callerSignal \in {"none", "armed", "aborted"}

(***************************************************************************)
(* Vocabulary of the properties                                            *)
(***************************************************************************)
Called == pc # "idle" /\ attempts > 0

IsResponse(i) == history[i].kind = "response"

ServerError(i) == IsResponse(i) /\ history[i].status >= 500 /\ history[i].status <= 599

FollowedByAttempt(i) == attempts > i

ThrewTimeout ==
  /\ pc = "done"
  /\ fetchResult.kind = "thrown"
  /\ fetchResult.error.message = "Request timeout"

(***************************************************************************)
(* C1.  When the first attempt returns a response with status 200-299,     *)
(* the call resolves with that response, exactly one network attempt is    *)
(* made and no backoff is awaited, whatever the retry budget.              *)
(***************************************************************************)
C1_FirstSuccessIsFinal ==
  (Len(history) >= 1 /\ IsResponse(1)
     /\ history[1].status >= 200 /\ history[1].status <= 299)
  => /\ pc = "done"
     /\ fetchResult.kind = "returned"
     /\ fetchResult.response.from = 0
     /\ fetchResult.response.status = history[1].status
     /\ attempts = 1
     /\ delays = <<>>

C1_Witness ==
  /\ Len(history) = 1 /\ IsResponse(1) /\ history[1].status = 299
  /\ retries = MaxBudget
  /\ pc = "done"

(***************************************************************************)
(* C2.  When every attempt returns a 5xx response and the budget is k,     *)
(* exactly k+1 attempts are made and the delay awaited after failed        *)
(* attempt n (0-based) is 1000 * 2^n ms; for k = 3: 4 attempts separated   *)
(* by 1000, 2000 and 4000 ms.                                              *)
(***************************************************************************)
C2_ServerErrorSchedule ==
  (Called /\ Len(history) >= 1 /\ \A i \in 1..Len(history) : ServerError(i))
  => /\ pc = "done" => (attempts = retries + 1 /\ Len(delays) = retries)
     /\ pc = "backoff" => Len(delays) = attempts
     /\ pc = "attempting" => Len(delays) = attempts - 1
     /\ \A n \in 1..Len(delays) : delays[n] = 1000 * 2^(n - 1)
     /\ (pc = "done" /\ retries = 3) => (attempts = 4 /\ delays = <<1000, 2000, 4000>>)

C2_Witness ==
  /\ pc = "done"
  /\ retries = 3
  /\ Len(history) = 4
  /\ \A i \in 1..4 : ServerError(i)

(***************************************************************************)
(* C3.  As soon as an attempt returns a response with status 400-499, that *)
(* response is returned to the caller and no further attempt or backoff    *)
(* delay happens, whatever budget remains.                                 *)
(***************************************************************************)
C3_ClientErrorIsFinal ==
  \A i \in 1..Len(history) :
    (IsResponse(i) /\ history[i].status >= 400 /\ history[i].status <= 499)
    => /\ i = Len(history)
       /\ pc = "done"
       /\ fetchResult.kind = "returned"
       /\ fetchResult.response.status = history[i].status
       /\ fetchResult.response.from = i - 1
       /\ attempts = i
       /\ Len(delays) = i - 1

C3_Witness ==
  /\ Len(history) = 2
  /\ IsResponse(2) /\ history[2].status = 404
  /\ retries = 3
  /\ pc = "done"

(***************************************************************************)
(* C4.  A further attempt is started only when the previous attempt threw  *)
(* a non-cancellation error or returned a 5xx response; a response with    *)
(* any other status (2xx, 3xx, 4xx) is never followed by a retry.          *)
(***************************************************************************)
C4_RetryOnlyOnErrorOr5xx ==
  \A i \in 1..Len(history) :
    FollowedByAttempt(i)
    => /\ history[i].kind # "cancel"
       /\ IsResponse(i) => ServerError(i)

(***************************************************************************)
(* C5.  If the caller's signal fires while an attempt is in flight, that   *)
(* attempt is aborted, the call rejects with 'Request timeout' and no      *)
(* further attempt is made, whatever budget remains.                       *)
(***************************************************************************)
C5_CancelIsFinal ==
  \A i \in 1..Len(history) :
    history[i].kind = "cancel"
    => /\ i = Len(history)
       /\ ThrewTimeout
       /\ attempts = i
       /\ (i - 1) \notin inflight
       /\ Len(delays) = i - 1

C5_Witness ==
  /\ Len(history) = 2
  /\ history[2].kind = "cancel"
  /\ retries = 3
  /\ pc = "done"

(***************************************************************************)
(* C6.  With or without a caller-supplied signal, when the per-attempt     *)
(* 120000 ms timer fires during an attempt the call fails with the timeout *)
(* error and no further attempt is started.                                *)
(***************************************************************************)
C6_TimeoutIsFinal ==
  \A i \in 1..Len(history) :
    history[i].kind = "timeout"
    => /\ i = Len(history)
       /\ ThrewTimeout
       /\ attempts = i

(***************************************************************************)
(* C7.  For any sequence of attempt outcomes and any non-negative budget,  *)
(* the number of network attempts of one call never exceeds retries + 1.   *)
(***************************************************************************)
C7_AttemptsWithinBudget ==
  Called => (attempts <= retries + 1 /\ attempt <= retries)

C7_Witness ==
  /\ pc = "done"
  /\ retries = MaxBudget
  /\ attempts = MaxBudget + 1
  /\ history[1].kind = "network"
  /\ ServerError(2)

(***************************************************************************)
(* C8.  When all retries + 1 attempts fail, the caller receives the        *)
(* outcome of the last attempt: a last 5xx response is returned (and the   *)
(* wrapper rejects with that response's parsed message), a last network    *)
(* error is thrown; an earlier attempt's outcome is never surfaced.        *)
(***************************************************************************)
C8_LastOutcomeSurfaced ==
  (/\ pc = "done"
   /\ Len(history) = retries + 1
   /\ \A i \in 1..Len(history) : ServerError(i) \/ history[i].kind = "network")
  => LET last == history[Len(history)]
     IN /\ last.kind = "response"
           => /\ fetchResult.kind = "returned"
              /\ fetchResult.response = lastOutcome.response
              /\ fetchResult.response.from = retries
              /\ fn \in Wrappers
                 => /\ result.kind = "rejected"
                    /\ result.message = ParseErrorMessage(lastOutcome.response)
        /\ last.kind = "network"
           => /\ fetchResult.kind = "thrown"
              /\ fetchResult.error = lastOutcome.error
              /\ fetchResult.error.from = retries

(***************************************************************************)
(* C9.  sendChatMessage or processNaturalLanguageQuery called with an      *)
(* empty or whitespace-only string rejects with a validation error and     *)
(* performs zero network attempts: fetchWithRetry is never entered.        *)
(***************************************************************************)
C9_BlankRejectedBeforeNetwork ==
  (/\ fn \in {"sendChatMessage", "processNaturalLanguageQuery"}
   /\ \A i \in 1..Len(arg) : arg[i] \in {" ", "\t"})
  => /\ pc = "done"
     /\ result.kind = "rejected"
     /\ result.message = (IF fn = "sendChatMessage" THEN "Message cannot be empty"
                                                     ELSE "Query cannot be empty")
     /\ attempts = 0
     /\ inflight = {}
     /\ history = <<>>
     /\ delays = <<>>
     /\ fetchResult.kind = "none"

C9_Witness ==
  /\ fn = "sendChatMessage"
  /\ arg = <<" ", "\t">>
  /\ pc = "done"
  /\ result.kind = "rejected"

(***************************************************************************)
(* C10.  When a public wrapper receives a non-2xx final response it        *)
(* rejects with an error whose message equals the `message` field of the   *)
(* response's JSON body; when the body is not parseable JSON it rejects    *)
(* with a message made of the numeric status and the status text.          *)
(***************************************************************************)
C10_RejectionCarriesBodyMessage ==
  (/\ pc = "done"
   /\ fn \in Wrappers
   /\ fetchResult.kind = "returned"
   /\ ~(fetchResult.response.status >= 200 /\ fetchResult.response.status <= 299))
  => LET resp == fetchResult.response
     IN /\ result.kind = "rejected"
        /\ (resp.body.parse = "object" /\ resp.body.hasMessage /\ resp.body.message # "")
           => result.message = resp.body.message
        /\ resp.body.parse = "invalid"
           => result.message = "HTTP " \o ToString(resp.status) \o ": " \o resp.statusText

(***************************************************************************)
(* C11.  For every public API function built on fetchWithRetry, a failure  *)
(* whose underlying cause was a timeout or cancellation reaches the caller *)
(* with the relabelled message that tells the user to check the connection *)
(* and try again, never with the raw 'Request timeout' message.            *)
(***************************************************************************)
C11_TimeoutAlwaysRelabelled ==
  (/\ pc = "done"
   /\ fn \in Wrappers
   /\ fetchResult.kind = "thrown"
   /\ fetchResult.error.message = "Request timeout")
  => /\ result.kind = "rejected"
     /\ result.message # "Request timeout"
     /\ result.message \in
          {"Request timed out. Please check your connection and try again.",
           "Query timed out. Please check your connection and try again."}

(***************************************************************************)
(* C12.  Every fetchWithRetry call eventually settles: given that timers   *)
(* fire (each attempt gets a response, fails, or has its 120 s timer fire, *)
(* and each backoff delay elapses), the call eventually returns or throws. *)
(***************************************************************************)
C12_CallSettles == (pc \in {"attempting", "backoff"}) ~> (pc = "done")

C12_Witness ==
  /\ pc = "done"
  /\ fn = "fetchWithRetry"
  /\ callerSignal = "none"
  /\ attempts = MaxBudget + 1
  /\ Len(delays) = MaxBudget
  /\ history[attempts].kind = "timeout"

(***************************************************************************)
(* C13.  Once the caller's signal has fired, fetchWithRetry starts no new  *)
(* network attempt: if it fires during a backoff delay, or had already     *)
(* fired when the call began, the call ends cancelled instead of issuing   *)
(* the next attempt.  (A signal that fires during an attempt ends the call *)
(* in that step, so an attempt awaited under a fired signal is one that    *)
(* was started after the firing.)                                          *)
(***************************************************************************)
C13_NoAttemptAfterCancel ==
  callerSignal = "aborted" => pc # "attempting"

(***************************************************************************)
(* C16.  Within one fetchWithRetry call attempts are strictly sequential:  *)
(* attempt n+1 never starts while the network operation of attempt n is    *)
(* still in flight, so at most one network operation of the call is in     *)
(* flight at any time, also when a caller signal is supplied and attempt n *)
(* ended by the per-attempt timer.                                         *)
(***************************************************************************)
C16_OneInFlight ==
  /\ Cardinality(inflight) <= 1
  /\ pc = "attempting" => inflight \subseteq {attempt}

(***************************************************************************)
(* C17.  When a caller-supplied signal and the internal per-attempt        *)
(* timeout controller both exist, the firing of either one aborts the      *)
(* signal passed to fetch: an attempt ended by the caller's signal and an  *)
(* attempt ended by the 120 s timer both leave their fetch aborted, not in *)
(* flight.                                                                 *)
(***************************************************************************)
C17_EitherSignalAbortsFetch ==
  callerSignal # "none"
  => \A i \in 1..Len(history) :
       history[i].kind \in {"cancel", "timeout"} => (i - 1) \notin inflight

(***************************************************************************)
(* C15.  For a non-empty query and a backend that answers 2xx with a JSON  *)
(* query response, processNaturalLanguageQuery resolves with exactly that  *)
(* body, unchanged: the resolved answer and confidence equal the backend's *)
(* values (answer "45", confidence 0.9).                                   *)
(***************************************************************************)
C15_QueryResolvesWithBody ==
  (/\ pc = "done"
   /\ fn = "processNaturalLanguageQuery"
   /\ \E i \in 1..Len(arg) : arg[i] \notin {" ", "\t"}
   /\ lastOutcome.response.status >= 200 /\ lastOutcome.response.status <= 299
   /\ lastOutcome.response.body.parse = "object"
   /\ "answer" \in DOMAIN lastOutcome.response.body)
  => /\ result.kind = "resolved"
     /\ result.data = lastOutcome.response.body
     /\ result.data.answer = "45"
     /\ result.data.confidence = 9

C15_Witness ==
  /\ pc = "done"
  /\ fn = "processNaturalLanguageQuery"
  /\ arg = <<"a", " ">>
  /\ attempts = 2
  /\ lastOutcome.response.status = 200
  /\ lastOutcome.response.body = QueryBody
  /\ result.kind = "resolved"

(***************************************************************************)
(* C14.  Issuing the same read-only call (getSyncStatus) twice in sequence *)
(* against a backend that answers identically yields two equal results:    *)
(* the client retains no state from one logical call to the next, so the   *)
(* second call's attempts, delays and result equal the first call's.       *)
(***************************************************************************)
C14_SecondCallEqualsFirst ==
  (callNo = 2 /\ pc = "done")
  => /\ result = prev.result
     /\ attempts = prev.attempts
     /\ delays = prev.delays

C14_Witness ==
  /\ callNo = 2
  /\ pc = "done"
  /\ fn = "getSyncStatus"
  /\ backend.kind = "responds" /\ backend.status = 500
  /\ prev.attempts = 4
  /\ prev.result.kind = "rejected"
  /\ attempts = 4

(***************************************************************************)
(* C20.  For a call that ultimately fails by timeout, the total elapsed    *)
(* time from call start to rejection never exceeds (maxRetries + 1) *      *)
(* 120000 ms plus the sum of the backoff delays awaited, and that sum is   *)
(* at most 1000 * (2^maxRetries - 1) ms.                                   *)
(***************************************************************************)
C20_TimeoutElapsedBound ==
  ThrewTimeout
  => /\ elapsed <= (retries + 1) * 120000 + SumSeq(delays)
     /\ SumSeq(delays) <= 1000 * (2^retries - 1)

C20_Witness ==
  /\ ThrewTimeout
  /\ retries = 3
  /\ attempts = 4
  /\ delays = <<1000, 2000, 4000>>
  /\ elapsed = 4 * 120000 + 7000

(***************************************************************************)
(* C18.  When the chat component unmounts while a call it issued is still  *)
(* outstanding, the outstanding network attempt is cancelled through the   *)
(* retained abort controller: the abort reaches the in-flight fetch of     *)
(* that call, so no attempt of it is in flight once the component has      *)
(* unmounted.                                                              *)
(***************************************************************************)
C18_UnmountCancelsCall ==
  (/\ ~ui.mounted
   /\ ui.abortCtl = "aborted"
   /\ ui.awaiting \in {"query", "fallback", "chat"})
  => /\ inflight = {}
     /\ pc # "attempting"

(***************************************************************************)
(* C19.  After the chat component has unmounted, the result (success or    *)
(* error) of a call that settles later is not applied to component state:  *)
(* no handler calls a state setter (messages, error, isTyping, isSyncing,  *)
(* syncSuccess, ETP data) on the unmounted component.                      *)
(***************************************************************************)
C19_NoUpdateAfterUnmount ==
  \A l \in late :
    l.by \notin {"handleSendMessage", "handleSync", "handleETPSubmit", "handleExportToSheets"}

(***************************************************************************)
(* C27.  A wrapper that relabels timeouts rejects with the 'timed out,     *)
(* check your connection' message only if the underlying fetchWithRetry    *)
(* call failed by abort or timeout; a call that ended with an HTTP error   *)
(* response is never reported as a timeout, whatever message text the      *)
(* server's error body carries.                                            *)
(***************************************************************************)
C27_TimedOutOnlyAfterTimeout ==
  (/\ pc = "done"
   /\ fn \in {"sendChatMessage", "processNaturalLanguageQuery"}
   /\ result.kind = "rejected"
   /\ result.message \in
        {"Request timed out. Please check your connection and try again.",
         "Query timed out. Please check your connection and try again."})
  => /\ fetchResult.kind = "thrown"
     /\ history[Len(history)].kind \in {"timeout", "cancel"}

C30_EtpRequestReachesNetwork ==
  (/\ fn = "getETPTankCapacity"
   /\ pc # "idle"
   /\ arg[1] # <<>>
   /\ arg[2] \in 0..99)
  => /\ attempts >= 1
     /\ ~(/\ result.kind = "rejected"
          /\ result.message = "Date and ETP Inlet tank value are required"
          /\ fetchResult.kind = "none")

(***************************************************************************)
(* C22.  Every error that an API call propagates to the chat component is  *)
(* rendered and then automatically cleared after a fixed delay without     *)
(* further user action, on every path that displays an error (send         *)
(* message, sync, export, ETP): while an error is displayed, the dismiss    *)
(* timer started with it is pending.                                       *)
(***************************************************************************)
C22_ErrorHasDismissTimer ==
  (ui.mounted /\ ui.error # Null)
  => \E t \in ui.timers : t.clears = "error" /\ t.op = ui.error[1].by

(***************************************************************************)
(* C24.  In the chat component an error message set together with a 5000   *)
(* ms dismiss timer stays displayed until its own timer fires or a new     *)
(* operation explicitly clears it: a dismiss timer started for an earlier  *)
(* error or validation message never clears a different error set later by *)
(* another handler.                                                        *)
(***************************************************************************)
C24_TimerClearsOwnError ==
  \A c \in ui.cleared :
    \/ c.timer = c.error
    \/ c.timerText = c.errorText
    \/ c.timerHandler = c.errorHandler

(***************************************************************************)
(* C25.  While the chat component stays mounted the message list strictly  *)
(* alternates user, assistant, user, assistant: handleSendMessage is a     *)
(* no-op while a send is pending (isTyping), every accepted send appends   *)
(* exactly one user message, and exactly one assistant message (the        *)
(* response or a 'Sorry, I encountered an error' message) is appended      *)
(* before the next user message can be appended.                           *)
(***************************************************************************)
C25_MessagesAlternate ==
  ui.mounted
  => /\ \A i \in 1..Len(ui.messages) :
          ui.messages[i] = (IF i % 2 = 1 THEN "user" ELSE "assistant")
     /\ ui.isTyping <=> (Len(ui.messages) % 2 = 1)
     /\ ui.isTyping <=> (ui.awaiting \in {"query", "fallback", "chat"})

C25_Witness ==
  /\ ui.mounted
  /\ ui.messages = <<"user", "assistant", "user", "assistant">>
  /\ ui.error # Null
  /\ ~ui.isTyping

(***************************************************************************)
(* C26.  For a chat message classified as a data query, handleSendMessage  *)
(* calls processNaturalLanguageQuery first; sendChatMessage is called      *)
(* exactly once with the same message if and only if the query call        *)
(* rejects or resolves without success or with an empty answer, and is not *)
(* called at all when the query resolves with success and a non-empty      *)
(* answer; a non-data message calls sendChatMessage exactly once and never *)
(* the query endpoint.                                                     *)
(***************************************************************************)
C26_FallbackExactlyOnce ==
  LET chatCalls == {i \in 1..Len(ui.calls) : ui.calls[i].f = "sendChatMessage"}
      queryCalls == {i \in 1..Len(ui.calls) : ui.calls[i].f = "processNaturalLanguageQuery"}
      dataQuery == \E i \in 1..Len(ui.userMessage) : ui.userMessage[i] \in {"0", "5"}
      finished == ui.awaiting \notin {"query", "fallback", "chat"}
  IN ui.calls # <<>>
     => /\ \A i \in 1..Len(ui.calls) : ui.calls[i].arg = ui.userMessage
        /\ Cardinality(chatCalls) <= 1
        /\ dataQuery
           => /\ queryCalls = {1}
              /\ ui.queryOutcome = "answered" => chatCalls = {}
              /\ (finished /\ ui.queryOutcome \in {"rejected", "unanswered"})
                 => Cardinality(chatCalls) = 1
        /\ ~dataQuery
           => /\ queryCalls = {}
              /\ chatCalls = {1}

C23_ListMatchesFilter ==
  (tm.mounted /\ tm.pending = {} /\ tm.failed = 0)
  => tm.tasks = ListTasks(StatusOf(tm.filter))

(***************************************************************************)
(* C21.  Two logical calls running concurrently are independent: each has  *)
(* its own attempt counter, abort controller and timers.  An attempt of a  *)
(* call ends by timeout only when that call's own timers for that attempt  *)
(* fired, and by cancellation only when that call's own options.signal     *)
(* fired; every attempt whose timers fired ends by timeout; and no step of *)
(* one call changes the attempts, the delays, the outcome or any other     *)
(* part of the state of the other call, under any interleaving.            *)
(***************************************************************************)
OwnEvents(h, sig, fired) ==
  /\ \A i \in 1..Len(h) :
       /\ h[i].kind = "timeout" => (i - 1) \in fired
       /\ h[i].kind = "cancel" => sig = "aborted"
  /\ \A n \in fired : Len(h) > n => h[n + 1].kind = "timeout"

C21_ConcurrentCallsIndependent ==
  /\ [](OwnEvents(history, callerSignal, timers[focus]))
  /\ [](OwnEvents(other[12], other[5], timers[3 - focus]))
  /\ [][focus' = focus => other' = other]_vars

\* Both calls are in the middle of their second attempt: the first attempt of one
\* timed out, the first attempt of the other was answered with a 500, and each
\* awaited one backoff delay of its own.
C21_Witness ==
  /\ pc = "attempting" /\ attempts = 2 /\ delays = <<BackoffDelay(0)>>
  /\ history = << [kind |-> "timeout", status |-> 0] >>
  /\ timers[focus] = {0}
  /\ other[1] = "attempting" /\ other[7] = 2 /\ other[11] = <<BackoffDelay(0)>>
  /\ other[12] = << [kind |-> "response", status |-> 500] >>
  /\ timers[3 - focus] = {}

====
